---- MODULE Spec2Model ----
(***************************************************************************)
(* Model of the Azure Storage exporter's refresh cache, fan-out and        *)
(* container scanner (azure_storage_exporter.py, AzureStorageCollector).   *)
(*                                                                         *)
(* Threads: scrape handlers (Readers) call collect(), which calls          *)
(* _get_cached_or_fresh_data(); daemon threads (BgThreads) run             *)
(* _background_refresh().  A code block that runs under _cache_lock and    *)
(* contains no blocking call is one action guarded by the lock being free; *)
(* the bootstrap fetch, which runs inside the `with` block, spans several  *)
(* actions with the lock held.  time.time() is the variable now; it is     *)
(* taken to be monotonic.                                                  *)
(***************************************************************************)
EXTENDS Integers, Sequences, FiniteSets, TLC

\* ---------------------------------------------------------------- bounds
MaxTime == 3
MaxReads == 3
MaxContainers == 2
MaxBlobs == 2

\* ------------------------------------------------------- configuration
\* AzureStorageCollector.__init__ parameters (scaled: seconds are ticks).
cache_ttl_seconds == 2
max_blobs_per_container == 0
use_sampling == FALSE

Readers == {"r1", "r2"}
BgThreads == {"b1", "b2"}
Threads == Readers \cup BgThreads
ContainerNames == {"c1", "c2"}

\* threading.Lock(): the holder, or Free.
Free == "free"
\* Optional[float] None for _cache_timestamp.
NoTimestamp == -1

\* ------------------------------------------------------------- scanner
\* The dict returned by _process_single_container.
Metrics(ts, bc, ds, dc, ss, sc, vs, vc) ==
    [size_bytes |-> ts, blob_count |-> bc,
     deleted_size_bytes |-> ds, deleted_blob_count |-> dc,
     snapshot_size_bytes |-> ss, snapshot_count |-> sc,
     version_size_bytes |-> vs, version_count |-> vc]

\* The eight counters as initialised before the listing.
ZeroMetrics == Metrics(0, 0, 0, 0, 0, 0, 0, 0)

\* A listed blob: deleted, snapshot, version_id and icv (the record carries
\* an is_current_version attribute) are the truth values the hasattr tests
\* read; size 0 stands for a size of None or 0 (both falsy in `if blob.size`).
Blob(d, s, v, c, z) ==
    [deleted |-> d, snapshot |-> s, version_id |-> v, icv |-> c, size |-> z]

\* `if blob.size: x += blob.size`
SizeOf(blob) == IF blob.size # 0 THEN blob.size ELSE 0

\* Classify with the tests of lines 471 and 476 in the other order: a
\* soft-deleted snapshot counts as a snapshot.
Classify_SnapshotFirst(m, blob) ==
    LET is_deleted == blob.deleted
        is_snapshot == blob.snapshot
        is_version == blob.version_id /\ ~blob.icv
    IN  IF is_snapshot
        THEN [m EXCEPT !.snapshot_size_bytes = @ + SizeOf(blob),
                       !.snapshot_count = @ + 1]
        ELSE IF is_deleted
        THEN [m EXCEPT !.deleted_size_bytes = @ + SizeOf(blob),
                       !.deleted_blob_count = @ + 1]
        ELSE IF is_version
        THEN [m EXCEPT !.version_size_bytes = @ + SizeOf(blob),
                       !.version_count = @ + 1]
        ELSE [m EXCEPT !.size_bytes = @ + SizeOf(blob),
                       !.blob_count = @ + 1]

\* Classify taking every record with a version id for a version, whether or
\* not it carries is_current_version.
Classify_VersionById(m, blob) ==
    LET is_deleted == blob.deleted
        is_snapshot == blob.snapshot
        is_version == blob.version_id
    IN  IF is_deleted
        THEN [m EXCEPT !.deleted_size_bytes = @ + SizeOf(blob),
                       !.deleted_blob_count = @ + 1]
        ELSE IF is_snapshot
        THEN [m EXCEPT !.snapshot_size_bytes = @ + SizeOf(blob),
                       !.snapshot_count = @ + 1]
        ELSE IF is_version
        THEN [m EXCEPT !.version_size_bytes = @ + SizeOf(blob),
                       !.version_count = @ + 1]
        ELSE [m EXCEPT !.size_bytes = @ + SizeOf(blob),
                       !.blob_count = @ + 1]

\* One iteration of the classification of the full listing.
Classify(m, blob) ==
    LET is_deleted == blob.deleted
        is_snapshot == blob.snapshot
        is_version == blob.version_id /\ ~blob.icv
    IN  IF is_deleted
        THEN [m EXCEPT !.deleted_size_bytes = @ + SizeOf(blob),
                       !.deleted_blob_count = @ + 1]
        ELSE IF is_snapshot
        THEN [m EXCEPT !.snapshot_size_bytes = @ + SizeOf(blob),
                       !.snapshot_count = @ + 1]
        ELSE IF is_version
        THEN [m EXCEPT !.version_size_bytes = @ + SizeOf(blob),
                       !.version_count = @ + 1]
        ELSE [m EXCEPT !.size_bytes = @ + SizeOf(blob),
                       !.blob_count = @ + 1]

\* One iteration of the fallback (include=['deleted']) loop.
ClassifyBasic(m, blob) ==
    IF blob.deleted
    THEN [m EXCEPT !.deleted_size_bytes = @ + SizeOf(blob),
                   !.deleted_blob_count = @ + 1]
    ELSE [m EXCEPT !.size_bytes = @ + SizeOf(blob),
                   !.blob_count = @ + 1]

\* Scaled with the record that met the limit counted as processed.
Scaled_CountsCutoffRecord(x, processed_count, max_blobs) ==
    (x * (processed_count + 1)) \div max_blobs

\* int(x * sample_ratio), sample_ratio = processed_count / max_blobs.
Scaled(x, processed_count, max_blobs) ==
    IF processed_count > 0 THEN (x * processed_count) \div max_blobs ELSE x

ScaleAll(m, processed_count, max_blobs) ==
    [k \in DOMAIN m |-> Scaled(m[k], processed_count, max_blobs)]

\* A listing is [items, fails]: the iterator yields items and then either
\* stops or raises.  The main loop from item i on; the result is the
\* counters, the number of records processed and whether the loop raised.
RECURSIVE ScanAll(_, _, _, _, _, _)
ScanAll(listing, i, m, processed_count, max_blobs, sampling) ==
    IF i > Len(listing.items)
    THEN [m |-> m, processed |-> processed_count, raised |-> listing.fails]
    ELSE IF max_blobs > 0 /\ processed_count >= max_blobs
    THEN [m |-> IF sampling THEN ScaleAll(m, processed_count, max_blobs) ELSE m,
          processed |-> processed_count, raised |-> FALSE]
    ELSE ScanAll(listing, i + 1, Classify(m, listing.items[i]),
                 processed_count + 1, max_blobs, sampling)

\* The fallback loop; its own failure is logged and the sums are kept.
RECURSIVE ScanBasic(_, _, _)
ScanBasic(listing, i, m) ==
    IF i > Len(listing.items) THEN m
    ELSE ScanBasic(listing, i + 1, ClassifyBasic(m, listing.items[i]))

\* _process_single_container once the container client exists: full is the
\* listing with deleted, snapshots and versions, basic the fallback listing.
ProcessSingleContainer(full, basic, max_blobs, sampling) ==
    LET first == ScanAll(full, 1, ZeroMetrics, 0, max_blobs, sampling)
    IN  IF first.raised THEN ScanBasic(basic, 1, first.m) ELSE first.m

\* What the store may answer to one container's listings during a fetch.
StoreListings ==
    { [full |-> [items |-> <<Blob(FALSE, FALSE, FALSE, FALSE, 1),
                              Blob(FALSE, TRUE, FALSE, FALSE, 3),
                              Blob(FALSE, FALSE, TRUE, FALSE, 5)>>, fails |-> FALSE],
       basic |-> [items |-> <<>>, fails |-> FALSE]],
      [full |-> [items |-> <<Blob(TRUE, FALSE, FALSE, FALSE, 2)>>, fails |-> TRUE],
       basic |-> [items |-> <<Blob(TRUE, FALSE, FALSE, FALSE, 2)>>, fails |-> TRUE]] }

ScanResults ==
    { ProcessSingleContainer(l.full, l.basic, max_blobs_per_container, use_sampling) :
        l \in StoreListings }

\* ---------------------------------------------------------------- state
VARIABLES
    now,                  \* time.time()
    max_workers,          \* self.max_workers
    cache,                \* self._cache
    cache_timestamp,      \* self._cache_timestamp
    refresh_in_progress,  \* self._refresh_in_progress
    cache_lock,           \* self._cache_lock: its holder or Free
    cache_hits,           \* Counter cache_hits
    cache_misses,         \* Counter cache_misses
    scrape_errors,        \* Counter scrape_errors
    cache_age,            \* Gauge cache_age
    pc,                   \* each thread's position
    fetch,                \* each thread's _get_container_metrics frame
    nfetch,               \* number of snapshot dicts created so far
    last,                 \* each reader's latest read: its kind, its time,
                          \* what it returned, and whether it started a fetch
    seen,                 \* each refresh thread: the cache when it was started
    scan                  \* the frame of one _process_single_container call

cacheVars == <<cache, cache_timestamp, refresh_in_progress, cache_lock>>
instrVars == <<cache_hits, cache_misses, scrape_errors, cache_age>>

\* What a call of _process_single_container leaves alone.
collectorVars == <<now, max_workers, cacheVars, instrVars, pc, fetch, nfetch, last, seen>>

vars == <<collectorVars, scan>>

\* A dict of container name -> metrics.
EmptyData == [n \in {} |-> ZeroMetrics]

Put(d, k, v) == [n \in (DOMAIN d) \cup {k} |-> IF n = k THEN v ELSE d[n]]

\* A snapshot object: id is the object's identity (the id-th dict created at
\* the top of _get_container_metrics), data its content.  id 0 is None.
Snapshot(id, data) == [id |-> id, data |-> data]
None == Snapshot(0, EmptyData)

\* collect, lines 297-339: one series per container in each of the eight
\* container families, and the four running totals.
NoTotals == [total_size |-> 0, total_deleted_size |-> 0,
             total_snapshot_size |-> 0, total_version_size |-> 0]

RECURSIVE Rollup(_, _, _)
Rollup(containers_data, todo, t) ==
    IF todo = {} THEN t
    ELSE LET container_name == CHOOSE n \in todo : TRUE
             metrics == containers_data[container_name]
         IN  Rollup(containers_data, todo \ {container_name},
                    [total_size |-> t.total_size + metrics.size_bytes,
                     total_deleted_size |->
                         t.total_deleted_size + metrics.deleted_size_bytes,
                     total_snapshot_size |->
                         t.total_snapshot_size + metrics.snapshot_size_bytes,
                     total_version_size |->
                         t.total_version_size + metrics.version_size_bytes])

\* The docstring's account total (lines 8-13): active plus soft-deleted.
AccountTotalSize_WithDeleted(t) == t.total_size + t.total_deleted_size

\* Lines 350-360: azure_storage_account_total_size_bytes.
AccountTotalSize(t) == t.total_size

\* Lines 362-372: azure_storage_account_total_deleted_size_bytes.
AccountTotalDeletedSize(t) == t.total_deleted_size

\* Lines 374-384: azure_storage_account_total_size_with_deleted_bytes.
AccountTotalSizeWithDeleted(t) == t.total_size + t.total_deleted_size

\* The grand total leaving the version bytes out.
AccountTotalSizeAll_WithoutVersions(t) ==
    t.total_size + t.total_deleted_size + t.total_snapshot_size

\* Lines 386-396: azure_storage_account_total_size_all_bytes.
AccountTotalSizeAll(t) ==
    t.total_size + t.total_deleted_size + t.total_snapshot_size
        + t.total_version_size

\* What collect yields for the snapshot it was handed (lines 297-396): each
\* container family as container name -> value, then the four account
\* families.
Collect(containers_data) ==
    LET t == Rollup(containers_data, DOMAIN containers_data, NoTotals)
    IN  [yielded |-> TRUE,
         container_size_bytes |->
             [n \in DOMAIN containers_data |-> containers_data[n].size_bytes],
         container_blob_count |->
             [n \in DOMAIN containers_data |-> containers_data[n].blob_count],
         container_deleted_size_bytes |->
             [n \in DOMAIN containers_data |-> containers_data[n].deleted_size_bytes],
         container_deleted_blob_count |->
             [n \in DOMAIN containers_data |-> containers_data[n].deleted_blob_count],
         container_snapshot_size_bytes |->
             [n \in DOMAIN containers_data |-> containers_data[n].snapshot_size_bytes],
         container_snapshot_count |->
             [n \in DOMAIN containers_data |-> containers_data[n].snapshot_count],
         container_version_size_bytes |->
             [n \in DOMAIN containers_data |-> containers_data[n].version_size_bytes],
         container_version_count |->
             [n \in DOMAIN containers_data |-> containers_data[n].version_count],
         account_total_size_bytes |-> AccountTotalSize(t),
         account_total_deleted_size_bytes |-> AccountTotalDeletedSize(t),
         account_total_size_with_deleted_bytes |-> AccountTotalSizeWithDeleted(t),
         account_total_size_all_bytes |-> AccountTotalSizeAll(t)]

\* collect raised before its first yield (lines 406-409): nothing is exposed.
NoOutput ==
    [yielded |-> FALSE,
     container_size_bytes |-> EmptyData, container_blob_count |-> EmptyData,
     container_deleted_size_bytes |-> EmptyData,
     container_deleted_blob_count |-> EmptyData,
     container_snapshot_size_bytes |-> EmptyData,
     container_snapshot_count |-> EmptyData,
     container_version_size_bytes |-> EmptyData,
     container_version_count |-> EmptyData,
     account_total_size_bytes |-> 0, account_total_deleted_size_bytes |-> 0,
     account_total_size_with_deleted_bytes |-> 0,
     account_total_size_all_bytes |-> 0]


\* The frame of a thread that is not inside _get_container_metrics.  listed
\* tells how list_containers() at line 548 ended, once it has.
NoFetch == [id |-> 0, listed |-> "pending", container_list |-> <<>>,
            tasks |-> <<>>, containers_data |-> EmptyData]

NoRead == [kind |-> "none", time |-> 0, snap |-> None,
           timestamp |-> NoTimestamp, started |-> FALSE, out |-> NoOutput]
NotSeen == [snap |-> None, timestamp |-> NoTimestamp]

\* list(self.blob_service_client.list_containers()): any list, duplicates
\* and the empty list included.
RECURSIVE SeqsUpTo(_, _)
SeqsUpTo(S, n) ==
    IF n = 0 THEN {<<>>}
    ELSE LET shorter == SeqsUpTo(S, n - 1)
         IN  shorter \cup { Append(s, x) : s \in {q \in shorter : Len(q) = n - 1}, x \in S }

ContainerLists == SeqsUpTo(ContainerNames, MaxContainers)

\* The records a listing may yield: every outcome of the attribute tests of
\* lines 466-468, with a size that is falsy (0) or not.  hasattr(blob,
\* 'is_current_version') is evaluated only for a record with a version id
\* (`and` short-circuits), so icv varies only for those.
BlobSizes == {0, 2}
Blobs ==
    UNION { {Blob(d, s, v, c, z) : d \in BOOLEAN, s \in BOOLEAN,
                                   c \in (IF v THEN BOOLEAN ELSE {FALSE}),
                                   z \in BlobSizes} : v \in BOOLEAN }

\* What a container holds, in the order list_blobs(include=['deleted',
\* 'snapshots', 'versions']) yields it.
Contents == SeqsUpTo(Blobs, MaxBlobs)

\* list_blobs(include=['deleted']) yields the container's base blobs, the
\* soft-deleted ones included: no snapshots and no previous versions.
IsBase(blob) == ~blob.snapshot /\ ~(blob.version_id /\ ~blob.icv)
BasicListing(contents) == SelectSeq(contents, IsBase)

\* The frame of a _process_single_container call: the container and the
\* configuration it runs with, the listing it is reading (phase) and the
\* position i in it, processed_count and the eight counters m; basic_count
\* counts the records read from the fallback listing and how tells the way
\* the call went.
NoScan ==
    [phase |-> "none", contents |-> <<>>, max_blobs |-> 0, sampling |-> FALSE,
     i |-> 0, processed_count |-> 0, basic_count |-> 0, m |-> ZeroMetrics,
     how |-> "none"]

\* Lines 424-444: the counters are zero and the full listing is opened.
StartScan(contents, max_blobs, sampling) ==
    [phase |-> "full", contents |-> contents, max_blobs |-> max_blobs,
     sampling |-> sampling, i |-> 1, processed_count |-> 0, basic_count |-> 0,
     m |-> ZeroMetrics, how |-> "running"]

\* The collector after __init__, with max_workers one of W.
InitCollector(W) ==
    /\ now = 0
    /\ max_workers \in W
    /\ cache = None
    /\ cache_timestamp = NoTimestamp
    /\ refresh_in_progress = FALSE
    /\ cache_lock = Free
    /\ cache_hits = 0
    /\ cache_misses = 0
    /\ scrape_errors = 0
    /\ cache_age = 0
    /\ pc = [t \in Threads |-> "idle"]
    /\ fetch = [t \in Threads |-> NoFetch]
    /\ nfetch = 0
    /\ last = [r \in Readers |-> NoRead]
    /\ seen = [b \in BgThreads |-> NotSeen]

\* No scanner call is followed step by step.
InitWorkers(W) == InitCollector(W) /\ scan = NoScan

Init == InitWorkers({2})

\* ---------------------------------------------------------------- cache
\* _is_cache_valid with the comparison of line 159 turned round.
IsCacheValid_Inverted ==
    IF cache = None \/ cache_timestamp = NoTimestamp THEN FALSE
    ELSE now - cache_timestamp >= cache_ttl_seconds

\* _is_cache_valid testing the cache for truth (`not self._cache`), which an
\* empty dict fails.
IsCacheValid_Truthy ==
    IF cache = None \/ cache.data = EmptyData \/ cache_timestamp = NoTimestamp
    THEN FALSE
    ELSE now - cache_timestamp < cache_ttl_seconds

\* _is_cache_valid, lines 153-159.
IsCacheValid ==
    IF cache = None \/ cache_timestamp = NoTimestamp THEN FALSE
    ELSE now - cache_timestamp < cache_ttl_seconds

\* A scrape may still arrive (the counters are capped at MaxReads reads).
MayRead == cache_hits + cache_misses < MaxReads

\* The frame on entry to _get_container_metrics: containers_data = {}.
NewFetch == [id |-> nfetch + 1, listed |-> "pending", container_list |-> <<>>,
             tasks |-> <<>>, containers_data |-> EmptyData]

\* CacheHit renewing the timestamp on every hit (a sliding expiry).
CacheHit_RenewsTimestamp(r) ==
    /\ pc[r] = "idle" /\ MayRead
    /\ cache_lock = Free
    /\ IsCacheValid
    /\ cache_timestamp' = now
    /\ cache_age' = now - cache_timestamp
    /\ cache_hits' = cache_hits + 1
    /\ last' = [last EXCEPT ![r] =
                  [kind |-> "hit", time |-> now, snap |-> cache,
                   timestamp |-> cache_timestamp, started |-> FALSE,
                   out |-> Collect(cache.data)]]
    /\ UNCHANGED <<now, max_workers, scan, cache, refresh_in_progress, cache_lock,
                   cache_misses, scrape_errors, pc, fetch, nfetch, seen>>

\* _get_cached_or_fresh_data, lines 166-173: the cache is valid.
CacheHit(r) ==
    /\ pc[r] = "idle" /\ MayRead
    /\ cache_lock = Free
    /\ IsCacheValid
    /\ cache_age' = now - cache_timestamp
    /\ cache_hits' = cache_hits + 1
    /\ last' = [last EXCEPT ![r] =
                  [kind |-> "hit", time |-> now, snap |-> cache,
                   timestamp |-> cache_timestamp, started |-> FALSE,
                   out |-> Collect(cache.data)]]
    /\ UNCHANGED <<now, max_workers, scan, cacheVars, cache_misses, scrape_errors,
                   pc, fetch, nfetch, seen>>

\* BootstrapStart leaving the lock before the fetch: the first fetch runs
\* outside the `with` block, as the background refresh does.
BootstrapStart_FetchOutsideLock(r) ==
    /\ pc[r] = "idle" /\ MayRead
    /\ cache_lock = Free
    /\ ~IsCacheValid
    /\ cache = None
    /\ cache_misses' = cache_misses + 1
    /\ pc' = [pc EXCEPT ![r] = "listing"]
    /\ fetch' = [fetch EXCEPT ![r] = NewFetch]
    /\ nfetch' = nfetch + 1
    /\ last' = [last EXCEPT ![r] =
                  [kind |-> "fetching", time |-> now, snap |-> None,
                   timestamp |-> NoTimestamp, started |-> TRUE,
                   out |-> NoOutput]]
    /\ UNCHANGED <<now, max_workers, scan, cache, cache_timestamp, refresh_in_progress,
                   cache_lock, cache_hits, scrape_errors, cache_age, seen>>

\* Lines 175-183: no cache exists; the fetch starts inside the `with` block.
BootstrapStart(r) ==
    /\ pc[r] = "idle" /\ MayRead
    /\ cache_lock = Free
    /\ ~IsCacheValid
    /\ cache = None
    /\ cache_misses' = cache_misses + 1
    /\ cache_lock' = r
    /\ pc' = [pc EXCEPT ![r] = "listing"]
    /\ fetch' = [fetch EXCEPT ![r] = NewFetch]
    /\ nfetch' = nfetch + 1
    /\ last' = [last EXCEPT ![r] =
                  [kind |-> "fetching", time |-> now, snap |-> None,
                   timestamp |-> NoTimestamp, started |-> TRUE,
                   out |-> NoOutput]]
    /\ UNCHANGED <<now, max_workers, scan, cache, cache_timestamp, refresh_in_progress,
                   cache_hits, scrape_errors, cache_age, seen>>

\* Lines 184-189: the blocking fetch returned; leaving `with` frees the lock.
BootstrapReturn(r) ==
    /\ r \in Readers
    /\ pc[r] = "fetched"
    /\ cache' = Snapshot(fetch[r].id, fetch[r].containers_data)
    /\ cache_timestamp' = now
    /\ cache_age' = 0
    /\ cache_lock' = Free
    /\ pc' = [pc EXCEPT ![r] = "idle"]
    /\ fetch' = [fetch EXCEPT ![r] = NoFetch]
    /\ last' = [last EXCEPT ![r].kind = "bootstrap", ![r].snap = cache',
                             ![r].timestamp = cache_timestamp',
                             ![r].out = Collect(cache'.data)]
    /\ UNCHANGED <<now, max_workers, scan, refresh_in_progress, cache_hits, cache_misses,
                   scrape_errors, nfetch, seen>>

\* BootstrapRaise swallowing the error: the empty dict is cached and
\* returned as if the fetch had succeeded.
BootstrapRaise_CachesEmpty(r) ==
    /\ r \in Readers
    /\ pc[r] = "raised"
    /\ cache' = Snapshot(fetch[r].id, EmptyData)
    /\ cache_timestamp' = now
    /\ cache_lock' = Free
    /\ pc' = [pc EXCEPT ![r] = "idle"]
    /\ fetch' = [fetch EXCEPT ![r] = NoFetch]
    /\ last' = [last EXCEPT ![r].kind = "bootstrap", ![r].snap = cache',
                             ![r].timestamp = cache_timestamp',
                             ![r].out = Collect(cache'.data)]
    /\ UNCHANGED <<now, max_workers, scan, refresh_in_progress, instrVars, nfetch, seen>>

\* BootstrapRaise recording the time of the failed attempt as the cache
\* timestamp.
BootstrapRaise_StampsAttempt(r) ==
    /\ r \in Readers
    /\ pc[r] = "raised"
    /\ cache_lock' = Free
    /\ cache_timestamp' = now
    /\ scrape_errors' = scrape_errors + 1
    /\ pc' = [pc EXCEPT ![r] = "idle"]
    /\ fetch' = [fetch EXCEPT ![r] = NoFetch]
    /\ last' = [last EXCEPT ![r].kind = "error"]
    /\ UNCHANGED <<now, max_workers, scan, cache, refresh_in_progress,
                   cache_hits, cache_misses, cache_age, nfetch, seen>>

\* The blocking fetch raised: `with` frees the lock, collect() counts the
\* error (lines 406-409) and re-raises.
BootstrapRaise(r) ==
    /\ r \in Readers
    /\ pc[r] = "raised"
    /\ cache_lock' = Free
    /\ scrape_errors' = scrape_errors + 1
    /\ pc' = [pc EXCEPT ![r] = "idle"]
    /\ fetch' = [fetch EXCEPT ![r] = NoFetch]
    /\ last' = [last EXCEPT ![r].kind = "error"]
    /\ UNCHANGED <<now, max_workers, scan, cache, cache_timestamp, refresh_in_progress,
                   cache_hits, cache_misses, cache_age, nfetch, seen>>

\* StaleRead without the test of _refresh_in_progress at line 192: every
\* stale read starts a refresh thread.
StaleRead_NoFlagTest(r) ==
    /\ pc[r] = "idle" /\ MayRead
    /\ cache_lock = Free
    /\ ~IsCacheValid
    /\ cache # None
    /\ cache_misses' = cache_misses + 1
    /\ refresh_in_progress' = TRUE
    /\ \E b \in BgThreads :
         /\ pc[b] = "idle"
         /\ pc' = [pc EXCEPT ![b] = "listing"]
         /\ fetch' = [fetch EXCEPT ![b] = NewFetch]
         /\ seen' = [seen EXCEPT ![b] =
                       [snap |-> cache, timestamp |-> cache_timestamp]]
    /\ nfetch' = nfetch + 1
    /\ cache_age' = now - cache_timestamp
    /\ last' = [last EXCEPT ![r] =
                  [kind |-> "stale", time |-> now, snap |-> cache,
                   timestamp |-> cache_timestamp, started |-> TRUE,
                   out |-> Collect(cache.data)]]
    /\ UNCHANGED <<now, max_workers, scan, cache, cache_timestamp, cache_lock,
                   cache_hits, scrape_errors>>

\* StaleRead running the refresh inside the `with` block: the reader keeps
\* the lock until the refresh it started has ended.
StaleRead_RefreshUnderLock(r) ==
    /\ pc[r] = "idle" /\ MayRead
    /\ cache_lock = Free
    /\ ~IsCacheValid
    /\ cache # None
    /\ cache_misses' = cache_misses + 1
    /\ IF ~refresh_in_progress
       THEN /\ refresh_in_progress' = TRUE
            /\ \E b \in BgThreads :
                 /\ pc[b] = "idle"
                 /\ pc' = [pc EXCEPT ![b] = "listing"]
                 /\ fetch' = [fetch EXCEPT ![b] = NewFetch]
                 /\ seen' = [seen EXCEPT ![b] =
                               [snap |-> cache, timestamp |-> cache_timestamp]]
            /\ nfetch' = nfetch + 1
            /\ cache_lock' = r
       ELSE UNCHANGED <<refresh_in_progress, pc, fetch, seen, nfetch, cache_lock>>
    /\ cache_age' = now - cache_timestamp
    /\ last' = [last EXCEPT ![r] =
                  [kind |-> "stale", time |-> now, snap |-> cache,
                   timestamp |-> cache_timestamp,
                   started |-> ~refresh_in_progress,
                   out |-> Collect(cache.data)]]
    /\ UNCHANGED <<now, max_workers, scan, cache, cache_timestamp,
                   cache_hits, scrape_errors>>

\* StaleRead without lines 192-196: the stale snapshot is served and no
\* refresh is ever started.
StaleRead_NeverRefreshes(r) ==
    /\ pc[r] = "idle" /\ MayRead
    /\ cache_lock = Free
    /\ ~IsCacheValid
    /\ cache # None
    /\ cache_misses' = cache_misses + 1
    /\ cache_age' = now - cache_timestamp
    /\ last' = [last EXCEPT ![r] =
                  [kind |-> "stale", time |-> now, snap |-> cache,
                   timestamp |-> cache_timestamp, started |-> FALSE,
                   out |-> Collect(cache.data)]]
    /\ UNCHANGED <<now, max_workers, scan, cacheVars, cache_hits, scrape_errors,
                   pc, fetch, nfetch, seen>>

\* Lines 191-204: the cache exists but is stale.
StaleRead(r) ==
    /\ pc[r] = "idle" /\ MayRead
    /\ cache_lock = Free
    /\ ~IsCacheValid
    /\ cache # None
    /\ cache_misses' = cache_misses + 1
    /\ IF ~refresh_in_progress
       THEN /\ refresh_in_progress' = TRUE
            /\ \E b \in BgThreads :
                 /\ pc[b] = "idle"
                 /\ pc' = [pc EXCEPT ![b] = "listing"]
                 /\ fetch' = [fetch EXCEPT ![b] = NewFetch]
                 /\ seen' = [seen EXCEPT ![b] =
                               [snap |-> cache, timestamp |-> cache_timestamp]]
            /\ nfetch' = nfetch + 1
       ELSE UNCHANGED <<refresh_in_progress, pc, fetch, seen, nfetch>>
    /\ cache_age' = now - cache_timestamp
    /\ last' = [last EXCEPT ![r] =
                  [kind |-> "stale", time |-> now, snap |-> cache,
                   timestamp |-> cache_timestamp,
                   started |-> ~refresh_in_progress,
                   out |-> Collect(cache.data)]]
    /\ UNCHANGED <<now, max_workers, scan, cache, cache_timestamp, cache_lock,
                   cache_hits, scrape_errors>>

\* BackgroundRefreshDone without line 222: the timestamp is not renewed.
BackgroundRefreshDone_KeepsTimestamp(b) ==
    /\ b \in BgThreads
    /\ pc[b] = "fetched"
    /\ cache_lock = Free
    /\ cache' = Snapshot(fetch[b].id, fetch[b].containers_data)
    /\ refresh_in_progress' = FALSE
    /\ cache_age' = 0
    /\ pc' = [pc EXCEPT ![b] = "idle"]
    /\ fetch' = [fetch EXCEPT ![b] = NoFetch]
    /\ seen' = [seen EXCEPT ![b] = NotSeen]
    /\ UNCHANGED <<now, max_workers, scan, cache_timestamp, cache_lock, cache_hits,
                   cache_misses, scrape_errors, nfetch, last>>

\* BackgroundRefreshDone updating the cached dict in place (clear() and
\* update()) instead of replacing the reference at line 221.
BackgroundRefreshDone_UpdatesInPlace(b) ==
    /\ b \in BgThreads
    /\ pc[b] = "fetched"
    /\ cache_lock = Free
    /\ cache' = Snapshot(cache.id, fetch[b].containers_data)
    /\ cache_timestamp' = now
    /\ refresh_in_progress' = FALSE
    /\ cache_age' = 0
    /\ pc' = [pc EXCEPT ![b] = "idle"]
    /\ fetch' = [fetch EXCEPT ![b] = NoFetch]
    /\ seen' = [seen EXCEPT ![b] = NotSeen]
    /\ UNCHANGED <<now, max_workers, scan, cache_lock, cache_hits, cache_misses,
                   scrape_errors, nfetch, last>>

\* _background_refresh, lines 219-224.
BackgroundRefreshDone(b) ==
    /\ b \in BgThreads
    /\ pc[b] = "fetched"
    /\ cache_lock = Free
    /\ cache' = Snapshot(fetch[b].id, fetch[b].containers_data)
    /\ cache_timestamp' = now
    /\ refresh_in_progress' = FALSE
    /\ cache_age' = 0
    /\ pc' = [pc EXCEPT ![b] = "idle"]
    /\ fetch' = [fetch EXCEPT ![b] = NoFetch]
    /\ seen' = [seen EXCEPT ![b] = NotSeen]
    /\ UNCHANGED <<now, max_workers, scan, cache_lock, cache_hits, cache_misses,
                   scrape_errors, nfetch, last>>

\* BackgroundRefreshFailed invalidating the cache: the failed refresh drops
\* the snapshot and its timestamp.
BackgroundRefreshFailed_DropsCache(b) ==
    /\ b \in BgThreads
    /\ pc[b] = "raised"
    /\ cache_lock = Free
    /\ cache' = None
    /\ cache_timestamp' = NoTimestamp
    /\ refresh_in_progress' = FALSE
    /\ pc' = [pc EXCEPT ![b] = "idle"]
    /\ fetch' = [fetch EXCEPT ![b] = NoFetch]
    /\ seen' = [seen EXCEPT ![b] = NotSeen]
    /\ UNCHANGED <<now, max_workers, scan, cache_lock, instrVars, nfetch, last>>

\* BackgroundRefreshFailed without line 231: the flag stays set.
BackgroundRefreshFailed_KeepsFlag(b) ==
    /\ b \in BgThreads
    /\ pc[b] = "raised"
    /\ cache_lock = Free
    /\ pc' = [pc EXCEPT ![b] = "idle"]
    /\ fetch' = [fetch EXCEPT ![b] = NoFetch]
    /\ seen' = [seen EXCEPT ![b] = NotSeen]
    /\ UNCHANGED <<now, max_workers, scan, cacheVars, instrVars, nfetch, last>>

\* BackgroundRefreshFailed handing the error to the scrapes that were served
\* the stale snapshot: their reads end in an error.
BackgroundRefreshFailed_FailsReaders(b) ==
    /\ b \in BgThreads
    /\ pc[b] = "raised"
    /\ cache_lock = Free
    /\ refresh_in_progress' = FALSE
    /\ pc' = [pc EXCEPT ![b] = "idle"]
    /\ fetch' = [fetch EXCEPT ![b] = NoFetch]
    /\ seen' = [seen EXCEPT ![b] = NotSeen]
    /\ last' = [r \in Readers |->
                  IF last[r].kind = "stale"
                  THEN [last[r] EXCEPT !.kind = "error"] ELSE last[r]]
    /\ UNCHANGED <<now, max_workers, scan, cache, cache_timestamp, cache_lock,
                   instrVars, nfetch>>

\* _background_refresh, lines 228-231.
BackgroundRefreshFailed(b) ==
    /\ b \in BgThreads
    /\ pc[b] = "raised"
    /\ cache_lock = Free
    /\ refresh_in_progress' = FALSE
    /\ pc' = [pc EXCEPT ![b] = "idle"]
    /\ fetch' = [fetch EXCEPT ![b] = NoFetch]
    /\ seen' = [seen EXCEPT ![b] = NotSeen]
    /\ UNCHANGED <<now, max_workers, scan, cache, cache_timestamp, cache_lock,
                   instrVars, nfetch, last>>

\* ---------------------------------------------------------------- fetch
\* _get_container_metrics as a function of what the store and the scheduler
\* decide: the listing cl, each task's outcome (its metrics, or that it
\* raised) and the order in which as_completed yields the futures.
Returned(m) == [ok |-> TRUE, res |-> m]
Raised == [ok |-> FALSE, res |-> ZeroMetrics]
TaskOutcomes == {Returned(m) : m \in ScanResults} \cup {Raised}

RECURSIVE MergeInOrder(_, _, _, _)
MergeInOrder(cl, outcomes, order, k) ==
    IF k = 0 THEN EmptyData
    ELSE LET d == MergeInOrder(cl, outcomes, order, k - 1)
             i == order[k]
         IN  IF outcomes[i].ok THEN Put(d, cl[i], outcomes[i].res) ELSE d

GetContainerMetrics(cl, outcomes, order) ==
    IF Len(cl) = 0 THEN EmptyData
    ELSE MergeInOrder(cl, outcomes, order, Len(cl))

Orders(n) == {o \in [1..n -> 1..n] : \A i, j \in 1..n : o[i] = o[j] => i = j}

\* Every dict a fetch that does not raise can return.
FetchResults ==
    UNION { { GetContainerMetrics(cl, outcomes, order) :
                outcomes \in [1..Len(cl) -> TaskOutcomes],
                order \in Orders(Len(cl)) } : cl \in ContainerLists }

\* Lines 544-606 in one step: the fan-out reads and writes only this frame.
GetContainerMetricsReturn(t) ==
    /\ pc[t] = "listing"
    /\ \E d \in FetchResults :
         fetch' = [fetch EXCEPT ![t].containers_data = d, ![t].listed = "ok"]
    /\ pc' = [pc EXCEPT ![t] = "fetched"]
    /\ UNCHANGED <<now, max_workers, scan, cacheVars, instrVars, nfetch, last, seen>>

\* ListContainersFail with the error swallowed: the fetch returns the empty
\* dict it had built so far instead of re-raising.
ListContainersFail_ReturnsEmpty(t) ==
    /\ pc[t] = "listing"
    /\ fetch' = [fetch EXCEPT ![t].listed = "failed"]
    /\ pc' = [pc EXCEPT ![t] = "fetched"]
    /\ UNCHANGED <<now, max_workers, scan, cacheVars, instrVars, nfetch, last, seen>>

\* Lines 579-581: list_containers() raised; the fetch re-raises.
ListContainersFail(t) ==
    /\ pc[t] = "listing"
    /\ fetch' = [fetch EXCEPT ![t].listed = "failed"]
    /\ pc' = [pc EXCEPT ![t] = "raised"]
    /\ UNCHANGED <<now, max_workers, scan, cacheVars, instrVars, nfetch, last, seen>>

\* -------------------------------------------------------------- fan-out
\* The same fetch thread by thread (specification SpecFanOut).
Task(name) == [name |-> name, st |-> "queued", res |-> ZeroMetrics]

NumRunning(t) ==
    Cardinality({i \in DOMAIN fetch[t].tasks : fetch[t].tasks[i].st = "running"})

\* Lines 548-565: the listing returned; one task per entry is submitted.
ListContainers(t) ==
    /\ pc[t] = "listing"
    /\ \E cl \in ContainerLists :
         fetch' = [fetch EXCEPT ![t].container_list = cl,
                                ![t].tasks = [i \in 1..Len(cl) |-> Task(cl[i])],
                                ![t].listed = "ok"]
    /\ pc' = [pc EXCEPT ![t] = "fanout"]
    /\ UNCHANGED <<now, max_workers, scan, cacheVars, instrVars, nfetch, last, seen>>

\* An executor that starts every submitted task at once, whatever
\* max_workers says.
TaskStart_Unbounded(t) ==
    /\ pc[t] = "fanout"
    /\ \E i \in DOMAIN fetch[t].tasks :
         /\ fetch[t].tasks[i].st = "queued"
         /\ \A j \in 1..(i - 1) : fetch[t].tasks[j].st # "queued"
         /\ fetch' = [fetch EXCEPT ![t].tasks[i].st = "running"]
    /\ UNCHANGED <<now, max_workers, scan, cacheVars, instrVars, pc, nfetch, last, seen>>

\* ThreadPoolExecutor: a free worker takes the oldest queued task.
TaskStart(t) ==
    /\ pc[t] = "fanout"
    /\ NumRunning(t) < max_workers
    /\ \E i \in DOMAIN fetch[t].tasks :
         /\ fetch[t].tasks[i].st = "queued"
         /\ \A j \in 1..(i - 1) : fetch[t].tasks[j].st # "queued"
         /\ fetch' = [fetch EXCEPT ![t].tasks[i].st = "running"]
    /\ UNCHANGED <<now, max_workers, scan, cacheVars, instrVars, pc, nfetch, last, seen>>

\* _process_single_container returned (name, metrics).
TaskReturn(t, i) ==
    /\ pc[t] = "fanout"
    /\ i \in DOMAIN fetch[t].tasks
    /\ fetch[t].tasks[i].st = "running"
    /\ \E m \in ScanResults :
         fetch' = [fetch EXCEPT ![t].tasks[i].st = "ok", ![t].tasks[i].res = m]
    /\ UNCHANGED <<now, max_workers, scan, cacheVars, instrVars, pc, nfetch, last, seen>>

\* _process_single_container raised (outside its own try blocks).
TaskRaise(t, i) ==
    /\ pc[t] = "fanout"
    /\ i \in DOMAIN fetch[t].tasks
    /\ fetch[t].tasks[i].st = "running"
    /\ fetch' = [fetch EXCEPT ![t].tasks[i].st = "err"]
    /\ UNCHANGED <<now, max_workers, scan, cacheVars, instrVars, pc, nfetch, last, seen>>

\* MergeResult keeping the entry a name already has (setdefault).
MergeResult_FirstWins(t, i) ==
    /\ pc[t] = "fanout"
    /\ i \in DOMAIN fetch[t].tasks
    /\ fetch[t].tasks[i].st = "ok"
    /\ fetch' = [fetch EXCEPT
                   ![t].containers_data =
                       IF fetch[t].tasks[i].name \in DOMAIN @ THEN @
                       ELSE Put(@, fetch[t].tasks[i].name, fetch[t].tasks[i].res),
                   ![t].tasks[i].st = "merged"]
    /\ UNCHANGED <<now, max_workers, scan, cacheVars, instrVars, pc, nfetch, last, seen>>

\* Lines 569-575: as_completed yields a finished future that returned.
MergeResult(t, i) ==
    /\ pc[t] = "fanout"
    /\ i \in DOMAIN fetch[t].tasks
    /\ fetch[t].tasks[i].st = "ok"
    /\ fetch' = [fetch EXCEPT
                   ![t].containers_data =
                       Put(@, fetch[t].tasks[i].name, fetch[t].tasks[i].res),
                   ![t].tasks[i].st = "merged"]
    /\ UNCHANGED <<now, max_workers, scan, cacheVars, instrVars, pc, nfetch, last, seen>>

\* MergeError without the try/except of lines 571-577: future.result()
\* re-raises and the fetch raises.
MergeError_Propagates(t, i) ==
    /\ pc[t] = "fanout"
    /\ i \in DOMAIN fetch[t].tasks
    /\ fetch[t].tasks[i].st = "err"
    /\ pc' = [pc EXCEPT ![t] = "raised"]
    /\ UNCHANGED <<now, max_workers, scan, cacheVars, instrVars, fetch, nfetch, last, seen>>

\* Lines 576-577: as_completed yields a finished future that raised.
MergeError(t, i) ==
    /\ pc[t] = "fanout"
    /\ i \in DOMAIN fetch[t].tasks
    /\ fetch[t].tasks[i].st = "err"
    /\ fetch' = [fetch EXCEPT ![t].tasks[i].st = "failed"]
    /\ UNCHANGED <<now, max_workers, scan, cacheVars, instrVars, pc, nfetch, last, seen>>

Collected(task) == task.st \in {"merged", "failed"}

\* Lines 560, 583-606: every future was yielded; the executor shuts down and
\* the dict is returned.
FanOutReturn(t) ==
    /\ pc[t] = "fanout"
    /\ \A i \in DOMAIN fetch[t].tasks : Collected(fetch[t].tasks[i])
    /\ pc' = [pc EXCEPT ![t] = "fetched"]
    /\ UNCHANGED <<now, max_workers, scan, cacheVars, instrVars, fetch, nfetch, last, seen>>

\* -------------------------------------------------------------- scanner
\* One _process_single_container call step by step (specification SpecScan).
LimitReached ==
    scan.max_blobs > 0 /\ scan.processed_count >= scan.max_blobs

\* Lines 445, 464-490: the full listing yields a record and it is classified.
ScanFullNext ==
    /\ scan.phase = "full"
    /\ scan.i <= Len(scan.contents)
    /\ ~LimitReached
    /\ scan' = [scan EXCEPT !.m = Classify(@, scan.contents[scan.i]),
                            !.i = @ + 1,
                            !.processed_count = @ + 1]
    /\ UNCHANGED collectorVars

\* ScanLimit extrapolating from the sample to the whole listing: the sums
\* are scaled by listing length over limit.
ScanLimit_Extrapolates ==
    /\ scan.phase = "full"
    /\ scan.i <= Len(scan.contents)
    /\ LimitReached
    /\ scan' = [scan EXCEPT
                  !.m = IF scan.sampling
                        THEN ScaleAll(@, Len(scan.contents), scan.max_blobs)
                        ELSE @,
                  !.phase = "done", !.how = "limit"]
    /\ UNCHANGED collectorVars

\* Lines 447-462: the listing yields one more record with the limit reached;
\* the counters are scaled when sampling, and the loop ends.
ScanLimit ==
    /\ scan.phase = "full"
    /\ scan.i <= Len(scan.contents)
    /\ LimitReached
    /\ scan' = [scan EXCEPT
                  !.m = IF scan.sampling
                        THEN ScaleAll(@, scan.processed_count, scan.max_blobs)
                        ELSE @,
                  !.phase = "done", !.how = "limit"]
    /\ UNCHANGED collectorVars

\* Line 445: the full listing is exhausted.
ScanFullEnd ==
    /\ scan.phase = "full"
    /\ scan.i > Len(scan.contents)
    /\ scan' = [scan EXCEPT !.phase = "done", !.how = "end"]
    /\ UNCHANGED collectorVars

\* Lines 492-497: the full listing raises, on the call or on fetching any
\* record or page; the fallback listing is opened with the counters as they
\* are.
ScanFullRaise ==
    /\ scan.phase = "full"
    /\ scan' = [scan EXCEPT !.phase = "basic", !.i = 1]
    /\ UNCHANGED collectorVars

\* Lines 498-507: the fallback listing yields a record.
ScanBasicNext ==
    /\ scan.phase = "basic"
    /\ scan.i <= Len(BasicListing(scan.contents))
    /\ scan' = [scan EXCEPT
                  !.m = ClassifyBasic(@, BasicListing(scan.contents)[scan.i]),
                  !.i = @ + 1,
                  !.basic_count = @ + 1]
    /\ UNCHANGED collectorVars

\* Line 498: the fallback listing is exhausted.
ScanBasicEnd ==
    /\ scan.phase = "basic"
    /\ scan.i > Len(BasicListing(scan.contents))
    /\ scan' = [scan EXCEPT !.phase = "done", !.how = "basic_end"]
    /\ UNCHANGED collectorVars

\* ScanBasicRaise without the inner try of lines 495-509: the error leaves
\* _process_single_container.
ScanBasicRaise_Propagates ==
    /\ scan.phase = "basic"
    /\ scan' = [scan EXCEPT !.phase = "raised", !.how = "basic_raised"]
    /\ UNCHANGED collectorVars

\* Lines 508-509: the fallback listing raises too; the error is logged.
ScanBasicRaise ==
    /\ scan.phase = "basic"
    /\ scan' = [scan EXCEPT !.phase = "done", !.how = "basic_raised"]
    /\ UNCHANGED collectorVars

\* The clock advances.
Tick ==
    /\ now < MaxTime
    /\ now' = now + 1
    /\ UNCHANGED <<max_workers, scan, cacheVars, instrVars, pc, fetch, nfetch, last, seen>>

\* ------------------------------------------------------- specifications
\* The cache with every fetch as one step between its start and its end.
Next ==
    \/ Tick
    \/ \E r \in Readers : CacheHit(r)
    \/ \E r \in Readers : BootstrapStart(r)
    \/ \E r \in Readers : BootstrapReturn(r)
    \/ \E r \in Readers : BootstrapRaise(r)
    \/ \E r \in Readers : StaleRead(r)
    \/ \E b \in BgThreads : BackgroundRefreshDone(b)
    \/ \E b \in BgThreads : BackgroundRefreshFailed(b)
    \/ \E t \in Threads : GetContainerMetricsReturn(t)
    \/ \E t \in Threads : ListContainersFail(t)

Spec == Init /\ [][Next]_vars

\* The steps of refresh thread b, from its start to its end.
RefreshStep(b) ==
    \/ GetContainerMetricsReturn(b)
    \/ ListContainersFail(b)
    \/ BackgroundRefreshDone(b)
    \/ BackgroundRefreshFailed(b)

\* Spec with the scheduling the liveness claims rest on: a started refresh
\* thread keeps running (its fetch returns or raises, and it then takes the
\* lock), and, as long as scrapes may arrive, a scrape that finds the cache
\* stale is eventually served.
SpecLive ==
    /\ Init /\ [][Next]_vars
    /\ \A b \in BgThreads : WF_vars(RefreshStep(b))
    /\ WF_vars(\E r \in Readers : StaleRead(r))

\* The bootstrap read with its fetch thread by thread, for 1 or 2 workers.
InitFanOut == InitWorkers({1, 2})

NextFanOut ==
    \/ \E r \in Readers : BootstrapStart(r)
    \/ \E r \in Readers : BootstrapReturn(r)
    \/ \E r \in Readers : BootstrapRaise(r)
    \/ \E r \in Readers : ListContainers(r)
    \/ \E r \in Readers : ListContainersFail(r)
    \/ \E r \in Readers : TaskStart(r)
    \/ \E r \in Readers, i \in 1..MaxContainers : TaskReturn(r, i)
    \/ \E r \in Readers, i \in 1..MaxContainers : TaskRaise(r, i)
    \/ \E r \in Readers, i \in 1..MaxContainers : MergeResult(r, i)
    \/ \E r \in Readers, i \in 1..MaxContainers : MergeError(r, i)
    \/ \E r \in Readers : FanOutReturn(r)

SpecFanOut == InitFanOut /\ [][NextFanOut]_vars

\* One scanner call, for every container, limit and sampling setting (a
\* limit of MaxBlobs or more never cuts a container of up to MaxBlobs
\* records, so it behaves as no limit does).
InitScan ==
    /\ InitCollector({2})
    /\ \E contents \in Contents, max_blobs \in 0..(MaxBlobs - 1), sampling \in BOOLEAN :
          scan = StartScan(contents, max_blobs, sampling)

NextScan ==
    \/ ScanFullNext
    \/ ScanLimit
    \/ ScanFullEnd
    \/ ScanFullRaise
    \/ ScanBasicNext
    \/ ScanBasicEnd
    \/ ScanBasicRaise

SpecScan == InitScan /\ [][NextScan]_vars

\* ---------------------------------------------------------------- claims
\* The states of section 4.3, from the cache fields and the clock alone.
Empty == cache.id = 0
Fresh == cache.id # 0 /\ now - cache_timestamp < cache_ttl_seconds
Stale == cache.id # 0 /\ now - cache_timestamp >= cache_ttl_seconds

\* The refresh threads that are running.
ActiveRefreshes == {b \in BgThreads : pc[b] # "idle"}

\* Steps, told by the counters: a scrape's read, a read that found the cache
\* stale, a read that found it valid.
ReadStep == cache_hits' + cache_misses' = cache_hits + cache_misses + 1
StaleReadStep == cache_misses' = cache_misses + 1 /\ cache.id # 0
HitStep == cache_hits' = cache_hits + 1

\* C1: at most one background refresh is in flight in every state (and the
\* in-progress flag is set exactly while one is); a read that finds the
\* cache stale starts a refresh if and only if it finds the flag clear, and
\* a read that finds the flag set returns the cached snapshot, starts no
\* thread and creates no fetch.
C1_OneRefreshState ==
    /\ Cardinality(ActiveRefreshes) <= 1
    /\ refresh_in_progress <=> ActiveRefreshes # {}

C1_StaleReadStep ==
    StaleReadStep =>
        /\ \E r \in Readers : last'[r].kind = "stale" /\ last'[r].snap = cache
        /\ IF refresh_in_progress
           THEN /\ ActiveRefreshes' = ActiveRefreshes
                /\ nfetch' = nfetch
                /\ pc' = pc
           ELSE /\ Cardinality(ActiveRefreshes') = 1
                /\ ActiveRefreshes = {}
                /\ nfetch' = nfetch + 1

C1_AtMostOneRefresh == []C1_OneRefreshState /\ [][C1_StaleReadStep]_vars

\* C1 witness: a refresh is running, one reader's latest read started it and
\* the other reader's latest read found it running and started none.
C1_Witness ==
    /\ Cardinality(ActiveRefreshes) = 1
    /\ \E r1, r2 \in Readers :
         /\ last[r1].kind = "stale" /\ last[r1].started
         /\ last[r2].kind = "stale" /\ ~last[r2].started
         /\ last[r2].snap = cache

\* A thread is inside a fetch (_get_container_metrics has not returned).
InFetch(t) == pc[t] \in {"listing", "fanout"}

\* C2: no thread holds the cache lock while it is inside a fetch, be it the
\* blocking fetch of the Empty state or a background refresh.
C2_NoLockDuringFetch ==
    \A t \in Threads : InFetch(t) => cache_lock # t

\* C3: once a snapshot exists no thread keeps the lock across a fetch, so a
\* read never waits for one; a read that finds the snapshot stale returns
\* that snapshot in one step during which every fetch in progress stays in
\* progress and the cache is not replaced.
C3_LockFreeState == cache.id # 0 => cache_lock = Free

C3_StaleReadStep ==
    StaleReadStep =>
        /\ Stale
        /\ \E r \in Readers :
             /\ last'[r].kind = "stale" /\ last'[r].snap = cache
             /\ pc'[r] = "idle"
        /\ cache' = cache /\ cache_timestamp' = cache_timestamp
        /\ cache_lock' = Free
        /\ \A b \in BgThreads : InFetch(b) => InFetch(b)' /\ fetch'[b] = fetch[b]

C3_StaleReadDoesNotWait == []C3_LockFreeState /\ [][C3_StaleReadStep]_vars

\* C3 witness: a read has returned the stale snapshot that is still cached
\* while the refresh's fetch is still in progress and the lock is free.
C3_Witness ==
    /\ Stale
    /\ cache_lock = Free
    /\ \E b \in BgThreads : InFetch(b)
    /\ \E r \in Readers :
         /\ pc[r] = "idle"
         /\ last[r].kind = "stale" /\ last[r].snap = cache /\ last[r].time = now

\* C4: a read in the Empty state starts a fetch and keeps the reader (and
\* the lock) until the fetch ends.  If the fetch returns, its dict becomes
\* the snapshot, stamped with the current time, and is what the read
\* returns: the cache is Fresh.  If the fetch raises, snapshot and timestamp
\* stay absent, the flag stays clear, the lock is freed, the read ends with
\* the error, and the cache is Empty again, so that the next read is again
\* a blocking fetch.
C4_BootstrapState ==
    \A r \in Readers :
        pc[r] # "idle" =>
            /\ Empty /\ cache_timestamp = NoTimestamp
            /\ ~refresh_in_progress
            /\ cache_lock = r
            /\ last[r].kind = "fetching"

C4_BootstrapStep ==
    /\ (Empty /\ ReadStep) =>
          \E r \in Readers :
             /\ pc[r] = "idle" /\ pc'[r] = "listing"
             /\ cache_lock' = r
             /\ nfetch' = nfetch + 1 /\ fetch'[r].id = nfetch'
    /\ \A r \in Readers :
          /\ (pc[r] = "fetched" /\ pc'[r] = "idle") =>
                /\ cache' = Snapshot(fetch[r].id, fetch[r].containers_data)
                /\ cache_timestamp' = now
                /\ Fresh'
                /\ ~refresh_in_progress'
                /\ cache_lock' = Free
                /\ last'[r].kind = "bootstrap" /\ last'[r].snap = cache'
          /\ (pc[r] = "raised" /\ pc'[r] = "idle") =>
                /\ Empty' /\ cache_timestamp' = NoTimestamp
                /\ ~refresh_in_progress'
                /\ cache_lock' = Free
                /\ last'[r].kind = "error"
                /\ scrape_errors' = scrape_errors + 1

C4_Bootstrap == []C4_BootstrapState /\ [][C4_BootstrapStep]_vars

\* C4 witness: one read failed in its bootstrap fetch, a later read fetched
\* again and its snapshot is the cache.
C4_Witness ==
    \E r1, r2 \in Readers :
        /\ last[r1].kind = "error"
        /\ last[r2].kind = "bootstrap" /\ last[r2].snap = cache
        /\ Fresh /\ cache_lock = Free

\* C5: a step that replaces an existing snapshot sets the timestamp to the
\* current time and clears the flag in that same step, and leaves the cache
\* Fresh; no step changes the timestamp without the snapshot; a refresh
\* whose fetch returned ends with that step; and while the flag is set the
\* cached snapshot and timestamp are those the running refresh started
\* from, so a new snapshot is never seen with its own refresh's flag set.
C5_RefreshState ==
    refresh_in_progress =>
        \E b \in ActiveRefreshes :
            seen[b].snap = cache /\ seen[b].timestamp = cache_timestamp

C5_InstallStep ==
    /\ (cache' # cache /\ cache.id # 0) =>
          /\ cache_timestamp' = now'
          /\ refresh_in_progress /\ ~refresh_in_progress'
          /\ Fresh'
          /\ \E b \in BgThreads :
                /\ pc[b] = "fetched"
                /\ cache' = Snapshot(fetch[b].id, fetch[b].containers_data)
    /\ (cache_timestamp' # cache_timestamp) => cache'.id # cache.id
    /\ \A b \in BgThreads :
          (pc[b] = "fetched" /\ pc'[b] = "idle") => cache'.id # cache.id

C5_AtomicInstall == []C5_RefreshState /\ [][C5_InstallStep]_vars

\* C5 witness: a refresh has just replaced the snapshot a reader was served
\* stale; the flag is clear and the age is 0.
C5_Witness ==
    /\ cache.id > 1 /\ cache_timestamp = now /\ cache_age = 0
    /\ ~refresh_in_progress /\ ActiveRefreshes = {}
    /\ \E r \in Readers :
          last[r].kind = "stale" /\ last[r].started /\ last[r].snap.id < cache.id

\* C6: the step that ends a refresh whose fetch raised clears the flag and
\* leaves the snapshot and the timestamp as they were when the refresh was
\* started; it ends no read and counts no scrape error, and a read ends
\* with an error only if it found no snapshot.
C6_FailureState ==
    \A r \in Readers : last[r].kind = "error" => last[r].snap.id = 0

C6_FailedStep ==
    \A b \in BgThreads :
        (pc[b] = "raised" /\ pc'[b] = "idle") =>
            /\ ~refresh_in_progress'
            /\ cache' = seen[b].snap /\ cache'.id # 0
            /\ cache_timestamp' = seen[b].timestamp
            /\ cache_lock' = Free
            /\ last' = last
            /\ scrape_errors' = scrape_errors

C6_FailedRefresh == []C6_FailureState /\ [][C6_FailedStep]_vars

\* C6 witness: the refresh a stale read started from the cached snapshot
\* has ended, the snapshot is still the cache and no read ended in error.
C6_Witness ==
    /\ Stale /\ ~refresh_in_progress /\ ActiveRefreshes = {}
    /\ nfetch > cache.id
    /\ scrape_errors = 0
    /\ \A r \in Readers : pc[r] = "idle" /\ last[r].kind # "error"
    /\ \E r \in Readers :
          last[r].kind = "stale" /\ last[r].started /\ last[r].snap = cache

\* C7: a read that finds the cache stale and the flag clear (as it is after a
\* refresh that failed) starts a new refresh from the cached snapshot; a set
\* flag is eventually cleared; and from a stale cache, while scrapes may
\* still arrive, the cache becomes Fresh again unless the scrapes run out
\* first.
C7_RetryStep ==
    (StaleReadStep /\ ~refresh_in_progress) =>
        /\ refresh_in_progress'
        /\ nfetch' = nfetch + 1
        /\ \E b \in BgThreads :
              /\ pc[b] = "idle" /\ pc'[b] = "listing"
              /\ fetch'[b].id = nfetch'
              /\ seen'[b].snap = cache

C7_RetryAfterFailure ==
    /\ [][C7_RetryStep]_vars
    /\ (refresh_in_progress ~> ~refresh_in_progress)
    /\ ((Stale /\ MayRead) ~> (Fresh \/ ~MayRead))

\* C7 witness: the first refresh (fetch 2) failed, a later stale read started
\* another (fetch 3), and its snapshot is now the cache.
C7_Witness ==
    /\ scrape_errors = 0
    /\ cache.id = 3
    /\ Fresh /\ ~refresh_in_progress

\* A read that returns the cached snapshot happens in this step.
ReturnsCachedStep == HitStep \/ StaleReadStep

Returned2(read) == read.kind \in {"hit", "stale", "bootstrap"}

\* C8 as stated: whenever a read comes within TTL of the time of an earlier
\* read, it returns the snapshot that read returned and triggers no fetch.
C8_OriginalStep ==
    \A r1 \in Readers :
        (ReturnsCachedStep /\ Returned2(last[r1])
           /\ now - last[r1].time < cache_ttl_seconds) =>
            /\ cache = last[r1].snap
            /\ nfetch' = nfetch

C8_Original == [][C8_OriginalStep]_vars

\* C8 amended: whenever a read comes within TTL of the timestamp of the
\* snapshot an earlier read returned, it returns that same snapshot (same
\* object, same timestamp, same values), it is a cache hit and it triggers
\* no fetch.
C8_AmendedStep ==
    \A r1 \in Readers :
        (ReadStep /\ Returned2(last[r1])
           /\ now - last[r1].timestamp < cache_ttl_seconds) =>
            /\ cache = last[r1].snap
            /\ cache_timestamp = last[r1].timestamp
            /\ HitStep
            /\ nfetch' = nfetch /\ pc' = pc /\ fetch' = fetch

C8_WithinTtlOfSnapshot == [][C8_AmendedStep]_vars

\* C8 witness: a read returned the snapshot it fetched; a later read, at a
\* later time still within TTL of the snapshot's timestamp, returned it too.
C8_Witness ==
    \E r1, r2 \in Readers :
        /\ last[r1].kind = "bootstrap"
        /\ last[r2].kind = "hit"
        /\ last[r2].snap = last[r1].snap
        /\ last[r2].time > last[r1].timestamp
        /\ last[r2].time - last[r1].timestamp < cache_ttl_seconds

\* C9: a read in the Fresh state is a cache hit: it returns the cached
\* snapshot, counts one hit and sets the age gauge, and changes neither the
\* snapshot, the timestamp, the flag or the lock nor any thread or fetch;
\* and only a read in the Fresh state is a hit.
C9_FreshReadStep ==
    /\ (Fresh /\ ReadStep) =>
          /\ HitStep /\ cache_misses' = cache_misses
          /\ cache_age' = now - cache_timestamp
          /\ UNCHANGED <<cache, cache_timestamp, refresh_in_progress, cache_lock>>
          /\ UNCHANGED <<pc, fetch, nfetch, seen, scrape_errors, now>>
          /\ \E r \in Readers :
                /\ last'[r].kind = "hit" /\ last'[r].snap = cache
                /\ ~last'[r].started
                /\ \A q \in Readers \ {r} : last'[q] = last[q]
    /\ HitStep => Fresh

C9_FreshRead == [][C9_FreshReadStep]_vars

\* C9 witness: a read has hit a snapshot of positive age; nothing is being
\* fetched.
C9_Witness ==
    /\ Fresh /\ cache_hits > 0 /\ cache_age > 0
    /\ cache_age = now - cache_timestamp
    /\ \A t \in Threads : pc[t] = "idle"
    /\ \E r \in Readers : last[r].kind = "hit" /\ last[r].snap = cache

\* The listing of a fetch names every container once.
DistinctNames(tasks) ==
    \A i, j \in DOMAIN tasks : tasks[i].name = tasks[j].name => i = j

\* C10: when the listing names N distinct containers and k of the N tasks
\* raise, the fetch still returns (a task that raises never makes the fetch
\* raise: only the listing does), and the dict it returns has exactly the
\* N - k names whose task returned, each with that task's metrics; this for
\* every order of completion and of collection.  (The dict is also one of
\* FetchResults, the results the one-step fetch of Spec chooses from.)
C10_FanOutState ==
    \A r \in Readers :
        LET tasks == fetch[r].tasks
            data == fetch[r].containers_data
            returned == {i \in DOMAIN tasks : tasks[i].st = "merged"}
            raised == {i \in DOMAIN tasks : tasks[i].st = "failed"}
        IN  /\ pc[r] = "raised" => tasks = <<>>
            /\ pc[r] = "fetched" =>
                  /\ returned \cup raised = DOMAIN tasks
                  /\ data \in FetchResults
            /\ (pc[r] = "fetched" /\ DistinctNames(tasks)) =>
                  /\ DOMAIN data = {tasks[i].name : i \in returned}
                  /\ Cardinality(DOMAIN data) = Len(tasks) - Cardinality(raised)
                  /\ \A i \in returned : data[tasks[i].name] = tasks[i].res

C10_FanOutStep ==
    \A r \in Readers : pc[r] = "fanout" => pc'[r] \in {"fanout", "fetched"}

C10_PartialFailure == []C10_FanOutState /\ [][C10_FanOutStep]_vars

\* C10 witness: of two tasks for two distinct containers one raised and one
\* returned, and the fetch returned a dict with one entry.
C10_Witness ==
    \E r \in Readers :
        /\ pc[r] = "fetched"
        /\ Len(fetch[r].tasks) = 2 /\ DistinctNames(fetch[r].tasks)
        /\ fetch[r].tasks[1].st = "failed" /\ fetch[r].tasks[2].st = "merged"
        /\ Cardinality(DOMAIN fetch[r].containers_data) = 1

\* C11: a fetch whose container listing failed has raised with nothing in its
\* dict; while it is a bootstrap fetch the cache is still Empty, and while it
\* is a background refresh the cache and its timestamp are those the refresh
\* was started from.  When the thread ends, the cache and the timestamp are
\* unchanged and a reader's read has failed (and was counted as an error).
C11_ListingState ==
    \A t \in Threads :
        fetch[t].listed = "failed" =>
            /\ pc[t] = "raised"
            /\ fetch[t].containers_data = EmptyData
            /\ t \in Readers => cache = None /\ cache_timestamp = NoTimestamp
            /\ t \in BgThreads =>
                  /\ cache # None
                  /\ cache = seen[t].snap /\ cache_timestamp = seen[t].timestamp

C11_ListingStep ==
    \A t \in Threads :
        (fetch[t].listed = "failed" /\ pc'[t] = "idle") =>
            /\ cache' = cache /\ cache_timestamp' = cache_timestamp
            /\ t \in Readers =>
                  /\ last'[t].kind = "error" /\ last'[t].snap = None
                  /\ scrape_errors' = scrape_errors + 1
                  /\ cache_lock' = Free
            /\ t \in BgThreads => last' = last /\ scrape_errors' = scrape_errors

C11_ListingFailureIsFatal == []C11_ListingState /\ [][C11_ListingStep]_vars

\* C11 witness: a bootstrap fetch has failed and its read ended in an error;
\* later a background refresh's listing failed, with a snapshot cached.
C11_Witness ==
    /\ \E r \in Readers : last[r].kind = "error"
    /\ \E b \in BgThreads : fetch[b].listed = "failed" /\ pc[b] = "raised"
    /\ cache # None

\* C12: once a snapshot is cached, one stays cached, no reader is inside a
\* blocking fetch, and no step makes a read end in an error; a read ends in
\* an error only as the end of a bootstrap fetch that raised, with no
\* snapshot cached.
C12_PublishedState ==
    cache # None => \A r \in Readers : pc[r] = "idle" /\ last[r].kind # "fetching"

C12_PublishedStep ==
    /\ cache # None => cache' # None
    /\ \A r \in Readers :
          (last'[r].kind = "error" /\ last[r].kind # "error") =>
              /\ cache = None /\ cache' = None
              /\ pc[r] = "raised" /\ last[r].kind = "fetching"

C12_NoReadFailsOncePublished == []C12_PublishedState /\ [][C12_PublishedStep]_vars

\* C12 witness: with the bootstrap snapshot cached, a background refresh
\* failed (fetch 2) and a later read was served the cached snapshot and
\* started the next refresh (fetch 3); no read has failed.
C12_Witness ==
    /\ cache.id = 1 /\ nfetch = 3
    /\ scrape_errors = 0
    /\ \A r \in Readers : last[r].kind # "error"
    /\ \E r \in Readers : last[r].kind = "stale" /\ last[r].started

\* C13: every background refresh that fails, and every scanner task whose
\* failure the fan-out collects, adds one to the scrape-error counter.
C13_FailureStep ==
    /\ \A b \in BgThreads :
          (pc[b] = "raised" /\ pc'[b] = "idle") => scrape_errors' = scrape_errors + 1
    /\ \A t \in Threads : \A i \in DOMAIN fetch[t].tasks :
          (fetch[t].tasks[i].st = "err" /\ pc'[t] = "fanout"
             /\ fetch'[t].tasks[i].st = "failed") => scrape_errors' = scrape_errors + 1

C13_FailuresCounted == [][C13_FailureStep]_vars

\* C14 as stated: no read returns a snapshot whose age, the time of the read
\* minus the snapshot's timestamp, exceeds the TTL.
C14_OriginalStep ==
    \A r \in Readers :
        (last'[r] # last[r] /\ last'[r].snap # None) =>
            now - last'[r].timestamp <= cache_ttl_seconds

C14_Original == [][C14_OriginalStep]_vars

\* C14 amended: a read counted as a hit returns a snapshot younger than the
\* TTL; a snapshot that has reached the TTL is still returned, whatever its
\* age, and every read that returns one is counted as a miss and leaves a
\* background refresh in flight (the one it started or the one it found).
C14_AmendedStep ==
    \A r \in Readers :
        (last'[r] # last[r] /\ last'[r].snap # None) =>
            LET age == now - last'[r].timestamp
            IN  /\ age >= 0
                /\ last'[r].kind \in {"hit", "bootstrap", "stale"}
                /\ last'[r].kind = "bootstrap" => age = 0
                /\ last'[r].kind = "hit" =>
                      age < cache_ttl_seconds /\ cache_hits' = cache_hits + 1
                /\ last'[r].kind = "stale" => age >= cache_ttl_seconds
                /\ age >= cache_ttl_seconds =>
                      /\ last'[r].kind = "stale"
                      /\ cache_misses' = cache_misses + 1
                      /\ cache_age' = age
                      /\ refresh_in_progress' /\ ActiveRefreshes' # {}

C14_StaleServedWhileRefreshing == [][C14_AmendedStep]_vars

\* C14 witness: a read has returned a snapshot older than the TTL while a
\* refresh was in flight.
C14_Witness ==
    \E r \in Readers :
        /\ last[r].kind = "stale"
        /\ last[r].time - last[r].timestamp > cache_ttl_seconds
        /\ refresh_in_progress

\* The references to published snapshots: the cache's, those the readers
\* were handed, and those the refresh threads saw when they were started.
PublishedRefs ==
    ({cache} \cup {last[r].snap : r \in Readers} \cup {seen[b].snap : b \in BgThreads})
        \ {None}

\* C15: two references to the same snapshot object show the same containers
\* and values, whenever they were taken; the dict a fetch is filling is none
\* of the published objects and no other fetch's dict; and a step changes
\* what a reader holds only by handing it a reference, and changes the cache
\* only to a dict that was never published before.
C15_ImmutableState ==
    /\ \A x, y \in PublishedRefs : x.id = y.id => x.data = y.data
    /\ \A t \in Threads :
          fetch[t].id # 0 =>
              /\ \A x \in PublishedRefs : x.id # fetch[t].id
              /\ \A u \in Threads \ {t} : fetch[u].id # fetch[t].id

C15_ImmutableStep ==
    /\ \A r \in Readers :
          (last[r].snap # None /\ last'[r].snap.id = last[r].snap.id) =>
              last'[r].snap = last[r].snap
    /\ cache' # cache =>
          /\ \A x \in PublishedRefs : x.id # cache'.id
          /\ \E t \in Threads :
                pc[t] = "fetched" /\ cache' = Snapshot(fetch[t].id, fetch[t].containers_data)

C15_SnapshotImmutable == []C15_ImmutableState /\ [][C15_ImmutableStep]_vars

\* C15 witness: a refresh has replaced the cache by a snapshot with other
\* contents while a reader still holds the first snapshot.
C15_Witness ==
    \E r \in Readers :
        /\ last[r].snap.id = 1 /\ cache.id = 2
        /\ cache.data # last[r].snap.data

\* The scanner's buckets, by the precedence deleted > snapshot > version >
\* active; a record is flagged a version when it has a version id and no
\* is_current_version attribute.
Buckets == {"deleted", "snapshot", "version", "active"}
Bucket(blob) ==
    IF blob.deleted THEN "deleted"
    ELSE IF blob.snapshot THEN "snapshot"
    ELSE IF blob.version_id /\ ~blob.icv THEN "version"
    ELSE "active"

CountOf(m, bucket) ==
    CASE bucket = "deleted" -> m.deleted_blob_count
      [] bucket = "snapshot" -> m.snapshot_count
      [] bucket = "version" -> m.version_count
      [] bucket = "active" -> m.blob_count

SumCounts(m) ==
    m.blob_count + m.deleted_blob_count + m.snapshot_count + m.version_count

\* The number of records of a bucket among the first k of a listing.
NumIn(listing, k, bucket) ==
    Cardinality({n \in 1..k : Bucket(listing[n]) = bucket})

\* C16: at every point of a scan each of the four counts is the number of
\* records processed so far whose bucket, by the precedence, is that count's;
\* so the counts are non-negative and sum to the number of records processed
\* (in particular when the full listing is read without a failure).
C16_ClassificationPartition ==
    scan.phase # "none" =>
        /\ LET basic == IF scan.basic_count = 0 THEN <<>>
                        ELSE BasicListing(scan.contents)
           IN  \A bucket \in Buckets :
                  /\ CountOf(scan.m, bucket) >= 0
                  /\ CountOf(scan.m, bucket) =
                        NumIn(scan.contents, scan.processed_count, bucket)
                        + NumIn(basic, scan.basic_count, bucket)
        /\ SumCounts(scan.m) = scan.processed_count + scan.basic_count
        /\ scan.how \in {"end", "limit"} =>
              SumCounts(scan.m) = scan.processed_count

\* C16 witness: a full listing was read to its end, two records were
\* processed and one of them was flagged deleted, snapshot and version at
\* once.
C16_Witness ==
    /\ scan.phase = "done" /\ scan.how = "end"
    /\ scan.processed_count = 2
    /\ scan.contents[1].deleted /\ scan.contents[1].snapshot
    /\ scan.contents[1].version_id /\ ~scan.contents[1].icv
    /\ scan.m.deleted_blob_count >= 1

\* The positions in the container of the records the fallback listing
\* yields, in its order.
BaseIndices(contents) ==
    SelectSeq([n \in 1..Len(contents) |-> n], LAMBDA n : IsBase(contents[n]))

\* The stored objects the scan has read, from either listing.
Observed ==
    (1..scan.processed_count)
        \cup {BaseIndices(scan.contents)[p] : p \in 1..scan.basic_count}

RECURSIVE SizeSum(_, _)
SizeSum(contents, S) ==
    IF S = {} THEN 0
    ELSE LET n == CHOOSE x \in S : TRUE
         IN  SizeOf(contents[n]) + SizeSum(contents, S \ {n})

SumBytes(m) ==
    m.size_bytes + m.deleted_size_bytes + m.snapshot_size_bytes + m.version_size_bytes

\* C17: an unlimited, unsampled scan returns counts that sum to the number
\* of stored objects it read and byte fields that sum to their total size,
\* each object counted once, also when the full listing failed part-way and
\* the reduced listing was read.
C17_NoDoubleCount ==
    (scan.phase = "done" /\ scan.max_blobs = 0 /\ ~scan.sampling) =>
        /\ SumCounts(scan.m) = Cardinality(Observed)
        /\ SumBytes(scan.m) = SizeSum(scan.contents, Observed)

\* C18: with a limit M > 0 a scan processes at most M records, whichever
\* listings it reads, so the four counts sum to at most M; and when the
\* limit stops an unsampled scan, each count is the partial sum over the
\* records processed before the cutoff.
C18_LimitRespected ==
    (scan.phase # "none" /\ scan.max_blobs > 0) =>
        /\ scan.processed_count + scan.basic_count <= scan.max_blobs
        /\ SumCounts(scan.m) <= scan.max_blobs
        /\ (scan.how = "limit" /\ ~scan.sampling) =>
              /\ scan.processed_count = scan.max_blobs
              /\ \A bucket \in Buckets :
                    CountOf(scan.m, bucket) =
                        NumIn(scan.contents, scan.max_blobs, bucket)
              /\ SumBytes(scan.m) = SizeSum(scan.contents, 1..scan.max_blobs)

\* The raw partial sums over the first k records of a listing, bucket by
\* bucket.
RawSize(listing, k, bucket) ==
    SizeSum(listing, {n \in 1..k : Bucket(listing[n]) = bucket})

RawSums(listing, k) ==
    Metrics(RawSize(listing, k, "active"), NumIn(listing, k, "active"),
            RawSize(listing, k, "deleted"), NumIn(listing, k, "deleted"),
            RawSize(listing, k, "snapshot"), NumIn(listing, k, "snapshot"),
            RawSize(listing, k, "version"), NumIn(listing, k, "version"))

\* C19: when a sampled scan with limit M is cut off, the container holds
\* more than M records, processed_count is the number of records processed
\* before the cutoff, and each of the eight counters is its raw partial sum
\* over those records times processed_count / M, truncated; a scan that
\* reads a full listing to its end met no more than M records.
C19_SamplingScale ==
    /\ (scan.how = "limit" /\ scan.sampling) =>
          LET raw == RawSums(scan.contents, scan.processed_count)
          IN  /\ scan.max_blobs > 0
              /\ Len(scan.contents) > scan.max_blobs
              /\ scan.processed_count = scan.i - 1
              /\ \A k \in DOMAIN scan.m :
                    scan.m[k] = (raw[k] * scan.processed_count) \div scan.max_blobs
    /\ (scan.how = "end" /\ scan.max_blobs > 0) =>
          Len(scan.contents) <= scan.max_blobs

\* C19 witness: a sampled scan was cut off at its limit with bytes counted.
C19_Witness ==
    /\ scan.how = "limit" /\ scan.sampling
    /\ scan.phase = "done"
    /\ Len(scan.contents) > scan.max_blobs
    /\ SumBytes(scan.m) > 0

\* The listings a finished scan has read, as the arguments of
\* ProcessSingleContainer: the records each listing yielded and whether it
\* then raised.
FullRead ==
    [items |-> SubSeq(scan.contents, 1,
                      IF scan.how = "limit" THEN scan.processed_count + 1
                      ELSE scan.processed_count),
     fails |-> scan.how \in {"basic_end", "basic_raised"}]

BasicRead ==
    [items |-> SubSeq(BasicListing(scan.contents), 1, scan.basic_count),
     fails |-> scan.how = "basic_raised"]

AddMetrics(a, b) == [k \in DOMAIN a |-> a[k] + b[k]]

\* C20: a scan never ends by raising, whatever its listings do; the reduced
\* listing is read only after the full listing raised, and in one pass; a
\* finished scan returns the sums accumulated from the records either
\* listing yielded before it raised (for a scan whose two listings both
\* raised as for any other), which is what ProcessSingleContainer computes
\* from those listings.
C20_ErrorsContained ==
    /\ scan.phase \in {"full", "basic", "done"}
    /\ scan.phase = "full" => scan.basic_count = 0 /\ scan.how = "running"
    /\ scan.phase = "basic" =>
          /\ scan.how = "running" /\ scan.i = scan.basic_count + 1
          /\ scan.basic_count <= Len(BasicListing(scan.contents))
    /\ scan.phase = "done" =>
          /\ scan.how \in {"end", "limit", "basic_end", "basic_raised"}
          /\ scan.m = ProcessSingleContainer(FullRead, BasicRead,
                                             scan.max_blobs, scan.sampling)
          /\ scan.how \in {"basic_end", "basic_raised"} =>
                scan.m = AddMetrics(
                            RawSums(scan.contents, scan.processed_count),
                            RawSums(BasicListing(scan.contents), scan.basic_count))

\* C20 witness: the full listing raised after a record, the reduced listing
\* raised after a record too, and the scan has returned.
C20_Witness ==
    /\ scan.phase = "done" /\ scan.how = "basic_raised"
    /\ scan.processed_count >= 1 /\ scan.basic_count >= 1
    /\ Len(scan.contents) = 2

\* ------------------------------------------------------------------ C21
\* The sum of one field over the containers of a snapshot.
RECURSIVE FieldSum(_, _, _)
FieldSum(data, names, field) ==
    IF names = {} THEN 0
    ELSE LET n == CHOOSE x \in names : TRUE
         IN  data[n][field] + FieldSum(data, names \ {n}, field)

\* One container holding 100 active and 50 soft-deleted objects of 10 MiB.
C21_Example ==
    [n \in {"c1"} |->
        Metrics(100 * 10485760, 100, 50 * 10485760, 50, 0, 0, 0, 0)]

EmptySnapshotCached == cache # None /\ cache.data = EmptyData

\* A scrape output with no series in any container family and all four
\* account totals 0.
ZeroSeries(o) ==
    /\ o.yielded
    /\ DOMAIN o.container_size_bytes = {}
    /\ DOMAIN o.container_blob_count = {}
    /\ DOMAIN o.container_deleted_size_bytes = {}
    /\ DOMAIN o.container_deleted_blob_count = {}
    /\ DOMAIN o.container_snapshot_size_bytes = {}
    /\ DOMAIN o.container_snapshot_count = {}
    /\ DOMAIN o.container_version_size_bytes = {}
    /\ DOMAIN o.container_version_count = {}
    /\ o.account_total_size_bytes = 0
    /\ o.account_total_deleted_size_bytes = 0
    /\ o.account_total_size_with_deleted_bytes = 0
    /\ o.account_total_size_all_bytes = 0

C23_EmptyState ==
    /\ GetContainerMetrics(<<>>, <<>>, <<>>) = EmptyData
    /\ EmptySnapshotCached =>
         /\ ~Empty
         /\ now - cache_timestamp < cache_ttl_seconds => Fresh /\ IsCacheValid
    /\ \A r \in Readers :
         (last[r].snap # None /\ last[r].snap.data = EmptyData) =>
             /\ last[r].kind # "error"
             /\ ZeroSeries(last[r].out)

C23_EmptyStep ==
    /\ \A r \in Readers :
         (pc[r] = "fetched" /\ pc'[r] = "idle"
             /\ fetch[r].listed = "ok" /\ fetch[r].containers_data = EmptyData) =>
             /\ cache' = Snapshot(fetch[r].id, EmptyData) /\ cache' # None
             /\ cache_timestamp' = now
             /\ last'[r].kind = "bootstrap" /\ last'[r].snap = cache'
             /\ scrape_errors' = scrape_errors
    /\ (ReadStep /\ EmptySnapshotCached
           /\ now - cache_timestamp < cache_ttl_seconds) =>
         /\ HitStep
         /\ nfetch' = nfetch /\ pc' = pc /\ fetch' = fetch
         /\ UNCHANGED cacheVars
         /\ scrape_errors' = scrape_errors
         /\ \E r \in Readers :
              /\ last'[r].kind = "hit" /\ last'[r].time = now
              /\ last'[r].snap = cache
              /\ ZeroSeries(last'[r].out)

\* C23: an empty container listing makes the fetch return the empty dict,
\* which is cached as a valid snapshot: the cache is not Empty and is Fresh
\* until the TTL passes, a read within the TTL is a hit that performs no
\* fetch, no error is raised or counted, and the scrape exposes no series in
\* any container family and 0 in each of the four account totals.
C23_EmptyAccount == []C23_EmptyState /\ [][C23_EmptyStep]_vars

\* The bootstrap cached an empty snapshot and a later read within the TTL
\* was served it as a hit.
C23_Witness ==
    /\ EmptySnapshotCached /\ Fresh
    /\ scrape_errors = 0
    /\ nfetch = 1
    /\ \E r1, r2 \in Readers :
         /\ last[r1].kind = "bootstrap" /\ last[r1].snap = cache
         /\ last[r2].kind = "hit" /\ last[r2].snap = cache
         /\ ZeroSeries(last[r2].out)

\* ------------------------------------------------------------------ C24
\* A task that has been taken by a worker, and one whose call has ended.
Started(task) == task.st # "queued"
Completed(task) == task.st \in {"ok", "err", "merged", "failed"}

C24_PoolState ==
    \A t \in Threads :
        /\ pc[t] \in {"fanout", "fetched"} =>
             /\ Len(fetch[t].tasks) = Len(fetch[t].container_list)
             /\ \A i \in DOMAIN fetch[t].tasks :
                    fetch[t].tasks[i].name = fetch[t].container_list[i]
        /\ NumRunning(t) <= max_workers
        /\ (pc[t] = "fetched" /\ fetch[t].listed = "ok") =>
               \A i \in DOMAIN fetch[t].tasks : Completed(fetch[t].tasks[i])

C24_PoolStep ==
    \A t \in Threads :
        pc[t] = "fanout" =>
            /\ fetch'[t].container_list = fetch[t].container_list
            /\ Len(fetch'[t].tasks) = Len(fetch[t].tasks)
            /\ \A i \in DOMAIN fetch[t].tasks :
                 /\ Started(fetch[t].tasks[i]) => Started(fetch'[t].tasks[i])
                 /\ Completed(fetch[t].tasks[i]) => Completed(fetch'[t].tasks[i])
            /\ pc'[t] = "fetched" =>
                 \A i \in DOMAIN fetch[t].tasks : Completed(fetch[t].tasks[i])

\* C24: the fetch submits exactly one task per entry of the container
\* listing (the i-th task scans the i-th listed container, and each task is
\* started and completed at most once), at most max_workers tasks are
\* running in any state, and the fetch returns only when every submitted
\* task has completed.
C24_BoundedFanOut == []C24_PoolState /\ [][C24_PoolStep]_vars

\* One worker, two listed containers: the first task is running and the
\* second waits for the worker.
C24_Witness ==
    /\ max_workers = 1
    /\ \E t \in Threads :
         /\ pc[t] = "fanout"
         /\ Len(fetch[t].container_list) = 2
         /\ fetch[t].tasks[1].st = "running"
         /\ fetch[t].tasks[2].st = "queued"

\* ------------------------------------------------------------------ C25
\* The listing of the fetch of t names one container twice.
DuplicateListing(t) ==
    /\ Len(fetch[t].container_list) = 2
    /\ fetch[t].container_list[1] = fetch[t].container_list[2]

\* The claim as stated: with a duplicated name, the returned dict holds the
\* result of the second occurrence in the listing, whatever the completion
\* order.
C25_Original ==
    \A t \in Threads :
        (pc[t] = "fetched" /\ DuplicateListing(t)
            /\ fetch[t].tasks[1].st = "merged" /\ fetch[t].tasks[2].st = "merged") =>
            /\ DOMAIN fetch[t].containers_data = {fetch[t].container_list[2]}
            /\ fetch[t].containers_data[fetch[t].container_list[2]]
                   = fetch[t].tasks[2].res

C25_MergeStep ==
    \A t \in Threads, i \in 1..MaxContainers :
        (pc[t] = "fanout" /\ i \in DOMAIN fetch[t].tasks
            /\ fetch[t].tasks[i].st = "ok" /\ fetch'[t].tasks[i].st = "merged") =>
            LET name == fetch[t].tasks[i].name
            IN  /\ DOMAIN fetch'[t].containers_data
                       = DOMAIN fetch[t].containers_data \cup {name}
                /\ fetch'[t].containers_data[name] = fetch[t].tasks[i].res
                /\ \A n \in DOMAIN fetch[t].containers_data \ {name} :
                       fetch'[t].containers_data[n] = fetch[t].containers_data[n]

C25_OneEntryState ==
    \A t \in Threads :
        (pc[t] \in {"fanout", "fetched"} /\ DuplicateListing(t)) =>
            /\ DOMAIN fetch[t].containers_data \subseteq {fetch[t].container_list[1]}
            /\ (\E i \in 1..2 : fetch[t].tasks[i].st = "merged") =>
                   /\ DOMAIN fetch[t].containers_data = {fetch[t].container_list[1]}
                   /\ \E i \in 1..2 :
                          /\ fetch[t].tasks[i].st = "merged"
                          /\ fetch[t].containers_data[fetch[t].container_list[1]]
                                 = fetch[t].tasks[i].res

\* C25: with a name listed twice the dict holds exactly one entry for it,
\* and the entry is the result collected last: each collected result
\* replaces the entry of its name, in the order the tasks complete, so the
\* entry is the second occurrence's result only if that task is collected
\* after the first's (or the first's raised).
C25_LastCollectedWins == []C25_OneEntryState /\ [][C25_MergeStep]_vars

\* A name listed twice, both results collected, the two results differ and
\* the dict holds the first occurrence's.
C25_Witness ==
    \E t \in Threads :
        /\ pc[t] = "fetched" /\ DuplicateListing(t)
        /\ fetch[t].tasks[1].st = "merged" /\ fetch[t].tasks[2].st = "merged"
        /\ fetch[t].tasks[1].res # fetch[t].tasks[2].res
        /\ fetch[t].containers_data[fetch[t].container_list[1]]
               = fetch[t].tasks[1].res

\* ------------------------------------------------------------------ C26
\* The main loop classifies the record at the cursor in this step.
ClassifiesRecord ==
    /\ scan.phase = "full"
    /\ scan'.processed_count = scan.processed_count + 1

C26_VersionStep ==
    /\ ClassifiesRecord =>
         LET blob == scan.contents[scan.i]
         IN  (~blob.deleted /\ ~blob.snapshot /\ blob.version_id) =>
                 IF blob.icv
                 THEN /\ scan'.m.blob_count = scan.m.blob_count + 1
                      /\ scan'.m.size_bytes = scan.m.size_bytes + blob.size
                      /\ scan'.m.version_count = scan.m.version_count
                      /\ scan'.m.version_size_bytes = scan.m.version_size_bytes
                 ELSE /\ scan'.m.version_count = scan.m.version_count + 1
                      /\ scan'.m.version_size_bytes
                             = scan.m.version_size_bytes + blob.size
                      /\ scan'.m.blob_count = scan.m.blob_count
                      /\ scan'.m.size_bytes = scan.m.size_bytes
    /\ scan'.m.version_count # scan.m.version_count =>
         /\ ClassifiesRecord
         /\ scan.contents[scan.i].version_id
         /\ ~scan.contents[scan.i].icv
         /\ ~scan.contents[scan.i].deleted
         /\ ~scan.contents[scan.i].snapshot

Fetching == {t \in Threads : pc[t] # "idle"}

C27_OneFetchState ==
    /\ Cardinality(Fetching) <= 1
    /\ \A t \in Fetching : fetch[t].id = nfetch /\ cache.id < fetch[t].id
    /\ \A r \in Readers : r \in Fetching => cache_lock = r /\ cache = None
    /\ \A b \in BgThreads : b \in Fetching => cache # None

C27_InstallStep ==
    /\ cache' # cache => cache'.id > cache.id /\ cache'.id = nfetch
    /\ cache_timestamp' >= cache_timestamp
    /\ cache_timestamp' # cache_timestamp => cache' # cache
    /\ nfetch' # nfetch => Fetching = {} /\ nfetch' = nfetch + 1

\* C27: at most one fetch of any kind is in flight in every state: two
\* bootstrap fetches never overlap (the bootstrapping reader holds the lock
\* and the cache is still absent) and a bootstrap never overlaps a
\* background refresh (which runs only once a snapshot exists); a fetch
\* starts only when none is in flight, so snapshots are installed in the
\* order their fetches started, and the cache timestamp never decreases.
C27_FetchesSerialized == []C27_OneFetchState /\ [][C27_InstallStep]_vars

\* The snapshot of the second fetch replaced that of the first, with a
\* later timestamp, while a reader still holds the first.
C27_Witness ==
    /\ cache.id = 2 /\ cache_timestamp > 0
    /\ Fetching = {}
    /\ \E r \in Readers : last[r].snap.id = 1 /\ last[r].timestamp < cache_timestamp

\* ------------------------------------------------------------------ C28
C28_CacheState ==
    /\ cache_lock = Free => (cache = None <=> cache_timestamp = NoTimestamp)
    /\ refresh_in_progress => cache # None
    /\ cache = None => \A b \in BgThreads : pc[b] = "idle"

C28_CacheStep ==
    cache # None => cache' # None /\ cache_timestamp' # NoTimestamp

\* C28: whenever the lock is free the snapshot is absent exactly when the
\* timestamp is absent; the in-progress flag is set (and a refresh thread
\* runs) only while a snapshot is present; and once a snapshot is present
\* neither it nor its timestamp is ever removed, so the cache never returns
\* to Empty.
C28_CacheWellFormed == []C28_CacheState /\ [][C28_CacheStep]_vars

\* After a failed bootstrap left the cache empty, a later bootstrap
\* published a snapshot, and a refresh of it is now in progress with the
\* lock free.
C28_Witness ==
    /\ scrape_errors = 1
    /\ cache_lock = Free
    /\ cache # None /\ cache_timestamp # NoTimestamp
    /\ refresh_in_progress

====
